---- MODULE Spec2Model ----
(***************************************************************************)
(* A model of glow's gradient generation pass, src/glow/Graph/Grad.cpp:    *)
(* the gradient map (GraphGradMapper) and generateGradientNodes.           *)
(*                                                                         *)
(* Node objects live in `heap`; a node is named by its index in the heap.  *)
(* Every node of the model has one result, so a NodeValue (node, result    *)
(* number) is modelled by the node's index alone.                          *)
(***************************************************************************)
EXTENDS Integers, Sequences, FiniteSets, TLC

VARIABLES
  heap,      \* every Node object allocated so far, by index
  nodes,     \* Graph::nodes_ : the graph's operation nodes, in order
  vars,      \* Graph::vars_  : the graph's variables (parameters), in order
  gradVars,  \* Graph::addGradientVariable : pairs <<variable, gradient variable>>
  map,       \* GraphGradMapper::map_ : value -> registered gradient
  toAppend,  \* generateGradientNodes: "A list of nodes to add to the graph"
  newVars,   \* generateGradientNodes: "A list of vars to add to the graph"
  order,     \* pov.getPostOrder()
  it,        \* position of the reverse iterator in `order` (0: at rend)
  vi,        \* position of the loop over G.getVars()
  pc,        \* where the pass is
  mode,      \* CompilationMode
  conf,      \* TrainingConfig
  contribs,  \* history: value -> the gradients addGradient was called with, in order
  origNodes, \* history: G.getNodes() when the pass started
  origVars,  \* history: G.getVars() when the pass started
  lastOp     \* history: the last call of the gradient map's interface and its result

vars_all == <<heap, nodes, vars, gradVars, map, toAppend, newVars, order, it, vi,
              pc, mode, conf, contribs, origNodes, origVars, lastOp>>

(***************************************************************************)
(* Bounds of the model.                                                    *)
(***************************************************************************)
MaxVars == 2      \* variables of a forward graph (each Save adds its own)
MaxOps == 1       \* operation nodes of a generated forward graph
MaxLeaves == 2    \* gradient nodes the gradient map's driver starts with
MaxCalls == 4     \* addGradient calls the gradient map's driver makes
MaxRank == 3      \* axes of the tensors of the transposed graphs

(***************************************************************************)
(* Nodes.                                                                  *)
(***************************************************************************)
VoidTy == <<>>    \* G.getVoidTy(): a type with no dimensions

MkNode(kind, name, ins, ty, aux, train) ==
  [kind |-> kind, name |-> name, ins |-> ins, ty |-> ty, aux |-> aux, train |-> train,
   mode |-> ""]

\* new ZeroNode(name, type)
ZeroNode(name, ty) == MkNode("Zero", name, <<>>, ty, <<>>, FALSE)

\* new ArithmeticNode(name, LHS, RHS, Mode::Add); the result has the type of LHS
ArithmeticAdd(h, name, lhs, rhs) ==
  [MkNode("Arithmetic", name, <<lhs, rhs>>, h[lhs].ty, <<>>, FALSE) EXCEPT !.mode = "Add"]

IsVariable(h, n) == h[n].kind = "Variable"

SeqToSet(s) == {s[i] : i \in DOMAIN s}

(***************************************************************************)
(* The gradient map.  A "world" w is the part of the state addGradient     *)
(* reads and writes: [heap, nodes, map, contribs].                         *)
(***************************************************************************)
EmptyMap == [x \in {} |-> 0]

\* map_.count(activation)
MapCount(m, k) == k \in DOMAIN m

\* map_.get(activation), called on a key that has an entry
MapGet(m, k) == m[k]

\* map_.insert(activation, value): the entry of the key is replaced
MapInsert(m, k, v) == [x \in DOMAIN m \cup {k} |-> IF x = k THEN v ELSE m[x]]

\* G_.createArithmetic(name, LHS, RHS, Add): makes the node and adds it to the graph
createArithmetic(w, name, lhs, rhs) ==
  [w EXCEPT !.heap = Append(w.heap, ArithmeticAdd(w.heap, name, lhs, rhs)),
            !.nodes = Append(w.nodes, Len(w.heap) + 1)]

\* the history of addGradient calls
Record(c, k, g) ==
  [x \in DOMAIN c \cup {k} |-> IF x = k
                               THEN (IF k \in DOMAIN c THEN Append(c[k], g) ELSE <<g>>)
                               ELSE c[x]]

\* addGradient, were it to overwrite the entry of a value that has one
addGradient_overwrite(w, activation, grad) ==
  [w EXCEPT !.contribs = Record(w.contribs, activation, grad),
            !.map = MapInsert(w.map, activation, grad)]

\* addGradient, were it to sum the registered gradient with itself
addGradient_self(w, activation, grad) ==
  LET w0 == [w EXCEPT !.contribs = Record(w.contribs, activation, grad)]
  IN  IF MapCount(w0.map, activation)
      THEN LET curr == MapGet(w0.map, activation)
               w1 == createArithmetic(w0, "updateGrad", curr, curr)
               sum == Len(w1.heap)
           IN  [w1 EXCEPT !.map = MapInsert(w1.map, activation, sum)]
      ELSE [w0 EXCEPT !.map = MapInsert(w0.map, activation, grad)]

\* GraphGradMapper::addGradient(activation, grad)
addGradient(w, activation, grad) ==
  LET w0 == [w EXCEPT !.contribs = Record(w.contribs, activation, grad)]
  IN  IF MapCount(w0.map, activation)
      THEN LET curr == MapGet(w0.map, activation)
               w1 == createArithmetic(w0, "updateGrad", curr, grad)
               sum == Len(w1.heap)
           IN  [w1 EXCEPT !.map = MapInsert(w1.map, activation, sum)]
      ELSE [w0 EXCEPT !.map = MapInsert(w0.map, activation, grad)]

\* GraphGradMapper::hasGradient(activation)
hasGradient(m, activation) == MapCount(m, activation)

\* getGradient, were it to return a default value for a value with no entry
getGradient_default(m, activation) ==
  IF MapCount(m, activation)
  THEN [fatal |-> FALSE, value |-> MapGet(m, activation)]
  ELSE [fatal |-> FALSE, value |-> 0]

\* GraphGradMapper::getGradient(activation): the registered gradient, or a fatal
\* error ("fatal") when map_.get finds no entry
getGradient(m, activation) ==
  IF MapCount(m, activation)
  THEN [fatal |-> FALSE, value |-> MapGet(m, activation)]
  ELSE [fatal |-> TRUE, value |-> activation]

World == [heap |-> heap, nodes |-> nodes, map |-> map, contribs |-> contribs]

SetWorld(w) ==
  /\ heap' = w.heap
  /\ nodes' = w.nodes
  /\ map' = w.map
  /\ contribs' = w.contribs

(***************************************************************************)
(* A driver of the gradient map alone: any sequence of calls of its three  *)
(* methods, on a graph of MaxLeaves nodes.                                 *)
(***************************************************************************)
LeafTy == <<1, 2>>

NoOp ==
  [op |-> "none", key |-> 0, grad |-> 0, ret |-> 0, found |-> FALSE, fatal |-> FALSE,
   site |-> ""]

Calls == LET RECURSIVE Sum(_)
             Sum(S) == IF S = {} THEN 0
                       ELSE LET k == CHOOSE x \in S : TRUE
                            IN  Len(contribs[k]) + Sum(S \ {k})
         IN  Sum(DOMAIN contribs)

MapInit ==
  /\ heap = [i \in 1..MaxLeaves |-> ZeroNode("leaf", LeafTy)]
  /\ nodes = [i \in 1..MaxLeaves |-> i]
  /\ vars = <<>>
  /\ gradVars = <<>>
  /\ map = EmptyMap
  /\ toAppend = <<>>
  /\ newVars = <<>>
  /\ order = <<>>
  /\ it = 0
  /\ vi = 0
  /\ pc = "map"
  /\ mode = "Train"
  /\ conf = [L1Decay |-> 0, L2Decay |-> 0, learningRate |-> 0, momentum |-> 0,
             batchSize |-> 0]
  /\ contribs = EmptyMap
  /\ origNodes = nodes
  /\ origVars = vars
  /\ lastOp = NoOp

PassUnchanged ==
  UNCHANGED <<vars, gradVars, toAppend, newVars, order, it, vi, pc, mode, conf,
              origNodes, origVars>>

CallAddGradient(v, g) ==
  /\ pc = "map"
  /\ lastOp.fatal = FALSE
  /\ Calls < MaxCalls
  /\ SetWorld(addGradient(World, v, g))
  /\ lastOp' = [NoOp EXCEPT !.op = "add", !.key = v, !.grad = g]
  /\ PassUnchanged

CallHasGradient(v) ==
  /\ pc = "map"
  /\ lastOp.fatal = FALSE
  /\ lastOp' = [NoOp EXCEPT !.op = "has", !.key = v, !.found = hasGradient(map, v)]
  /\ UNCHANGED <<heap, nodes, map, contribs>>
  /\ PassUnchanged

CallGetGradient(v) ==
  /\ pc = "map"
  /\ lastOp.fatal = FALSE
  /\ LET r == getGradient(map, v)
     IN  lastOp' = [NoOp EXCEPT !.op = "get", !.key = v, !.ret = r.value,
                                !.fatal = r.fatal]
  /\ UNCHANGED <<heap, nodes, map, contribs>>
  /\ PassUnchanged

MapNext ==
  \/ \E v \in 1..MaxLeaves : \E g \in 1..Len(heap) : CallAddGradient(v, g)
  \/ \E v \in 1..MaxLeaves : CallHasGradient(v)
  \/ \E v \in 1..MaxLeaves : CallGetGradient(v)

MapSpec == MapInit /\ [][MapNext]_vars_all

(***************************************************************************)
(* Claims about the gradient map, under MapSpec.                           *)
(***************************************************************************)
IsSum(h, n) ==
  /\ h[n].kind = "Arithmetic"
  /\ h[n].mode = "Add"
  /\ h[n].name = "updateGrad"
  /\ Len(h[n].ins) = 2

RECURSIVE IsChain(_, _, _)
IsChain(h, n, k) ==
  IF k <= 1 THEN TRUE ELSE IsSum(h, n) /\ IsChain(h, h[n].ins[1], k - 1)

\* the leaves of a chain of k - 1 sum nodes
RECURSIVE ChainLeaves(_, _, _)
ChainLeaves(h, n, k) ==
  IF k <= 1 THEN <<n>> ELSE Append(ChainLeaves(h, h[n].ins[1], k - 1), h[n].ins[2])

BagOf(s) == [x \in SeqToSet(s) |-> Cardinality({i \in DOMAIN s : s[i] = x})]

\* what a node computes, each node that is no sum standing for the number 2^n
RECURSIVE Eval(_, _)
Eval(h, n) ==
  IF h[n].kind = "Arithmetic" /\ h[n].mode = "Add"
  THEN Eval(h, h[n].ins[1]) + Eval(h, h[n].ins[2])
  ELSE 2 ^ n

Reverse(s) == [i \in 1..Len(s) |-> s[Len(s) + 1 - i]]

ChainInv ==
  /\ DOMAIN map = DOMAIN contribs
  /\ \A v \in DOMAIN map :
       LET n == Len(contribs[v])
       IN  /\ n >= 1
           /\ IsChain(heap, map[v], n)
           /\ BagOf(ChainLeaves(heap, map[v], n)) = BagOf(contribs[v])
           /\ n = 1 => map[v] = contribs[v][1]

OthersKept ==
  lastOp'.op = "add" =>
    \A u \in DOMAIN map : u # lastOp'.key => u \in DOMAIN map' /\ map'[u] = map[u]

\* C1: after any sequence of addGradient(v, g1..gn) calls the map holds one entry
\* for v: g1 itself when n = 1, otherwise a chain of n - 1 sum nodes whose leaves
\* are the multiset {g1..gn}; and a call leaves the entries of other values alone.
C1_Accumulation == []ChainInv /\ [][OthersKept]_vars_all

C1_Witness ==
  /\ lastOp.op = "add"
  /\ \E v \in DOMAIN map : \E u \in DOMAIN map :
       /\ u # v
       /\ lastOp.key = v
       /\ Len(contribs[v]) = 3
       /\ Cardinality(SeqToSet(contribs[v])) >= 2

\* C2: a value that received g1 then g2 and a value that received g2 then g1 are
\* both registered to an elementwise sum of the same two operands, computing
\* g1 + g2.
C2_OrderIndependent ==
  \A v1 \in DOMAIN map : \A v2 \in DOMAIN map :
    (/\ Len(contribs[v1]) = 2
     /\ contribs[v2] = Reverse(contribs[v1]))
    => LET g1 == contribs[v1][1]
           g2 == contribs[v1][2]
       IN  /\ IsSum(heap, map[v1]) /\ IsSum(heap, map[v2])
           /\ BagOf(heap[map[v1]].ins) = BagOf(<<g1, g2>>)
           /\ BagOf(heap[map[v2]].ins) = BagOf(<<g1, g2>>)
           /\ Eval(heap, map[v1]) = Eval(heap, g1) + Eval(heap, g2)
           /\ Eval(heap, map[v2]) = Eval(heap, g1) + Eval(heap, g2)

C2_Witness ==
  \E v1 \in DOMAIN map : \E v2 \in DOMAIN map :
    /\ v1 # v2
    /\ Len(contribs[v1]) = 2
    /\ contribs[v1][1] # contribs[v1][2]
    /\ contribs[v2] = Reverse(contribs[v1])
    /\ heap[map[v1]].ins # heap[map[v2]].ins

\* C3: hasGradient(v) is true exactly when addGradient(v, _) was called before;
\* getGradient(v) returns the registered gradient when there is one and is a fatal
\* error, after which nothing more runs, when there is none.
C3_Lookup ==
  /\ lastOp.op = "has" => (lastOp.found <=> lastOp.key \in DOMAIN contribs)
  /\ lastOp.op = "get" =>
       IF lastOp.key \in DOMAIN contribs
       THEN /\ ~lastOp.fatal
            /\ lastOp.ret = map[lastOp.key]
            /\ ChainLeaves(heap, lastOp.ret, Len(contribs[lastOp.key]))
                 = contribs[lastOp.key]
       ELSE lastOp.fatal
  /\ lastOp.fatal => ~ENABLED MapNext

C3_Witness ==
  /\ lastOp.op = "get"
  /\ lastOp.fatal
  /\ lastOp.key \notin DOMAIN contribs
  /\ DOMAIN contribs # {}

(***************************************************************************)
(* Forward graphs.  A graph g is [heap, nodes, vars].  Every variable of a *)
(* generated graph has the type LeafTy; the attributes of an operation     *)
(* node follow from the type of its input.                                 *)
(***************************************************************************)
Variable(name, ty, train, init) ==
  [MkNode("Variable", name, <<>>, ty, <<>>, train) EXCEPT !.mode = init]

NameOf(prefix, h) == prefix \o ToString(Len(h) + 1)

GNode(g, node) ==
  [g EXCEPT !.heap = Append(g.heap, node), !.nodes = Append(g.nodes, Len(g.heap) + 1)]

GVar(g, node) ==
  [g EXCEPT !.heap = Append(g.heap, node), !.vars = Append(g.vars, Len(g.heap) + 1)]

RECURSIVE Product(_)
Product(d) == IF d = <<>> THEN 1 ELSE Head(d) * Product(Tail(d))

\* a reshape between the rank-1 and the flattened form of a type
ReshapeDims(d) == IF Len(d) = 1 THEN <<1>> \o d ELSE <<Product(d)>>

\* the shuffle that reverses the axes, as axis numbers from 0
ReversingShuffle(d) == [i \in 1..Len(d) |-> Len(d) - i]

Shuffled(d, shuffle) == [i \in 1..Len(d) |-> d[shuffle[i] + 1]]

\* a slice of extent 1 at the end of the last axis
SliceStart(d) == [i \in 1..Len(d) |-> IF i = Len(d) THEN d[i] - 1 ELSE 0]
SliceDims(d) == [i \in 1..Len(d) |-> IF i = Len(d) THEN 1 ELSE d[i]]

\* types that can be concatenated along axis `dim` (from 0)
Concatenable(a, b, dim) ==
  /\ Len(a) = Len(b)
  /\ \A i \in 1..Len(a) : i # dim + 1 => a[i] = b[i]

RECURSIVE ConcatDims(_, _, _)
ConcatDims(h, ins, dim) ==
  IF Len(ins) = 1 THEN h[ins[1]].ty
  ELSE LET rest == ConcatDims(h, Tail(ins), dim)
       IN  [rest EXCEPT ![dim + 1] = @ + h[ins[1]].ty[dim + 1]]

GRelu(g, in) ==
  GNode(g, MkNode("Relu", NameOf("relu", g.heap), <<in>>, g.heap[in].ty, <<>>, FALSE))
GAdd(g, lhs, rhs) ==
  GNode(g, ArithmeticAdd(g.heap, NameOf("add", g.heap), lhs, rhs))
GReshape(g, in) ==
  LET d == ReshapeDims(g.heap[in].ty)
  IN  GNode(g, MkNode("Reshape", NameOf("reshape", g.heap), <<in>>, d, d, FALSE))
GTranspose(g, in) ==
  LET sh == ReversingShuffle(g.heap[in].ty)
  IN  GNode(g, MkNode("Transpose", NameOf("transpose", g.heap), <<in>>,
                      Shuffled(g.heap[in].ty, sh), sh, FALSE))
GSlice(g, in) ==
  GNode(g, MkNode("Slice", NameOf("slice", g.heap), <<in>>, SliceDims(g.heap[in].ty),
                  SliceStart(g.heap[in].ty), FALSE))
GConcat(g, ins) ==
  GNode(g, MkNode("Concat", NameOf("concat", g.heap), ins, ConcatDims(g.heap, ins, 0),
                  <<0>>, FALSE))
GZero(g) == GNode(g, ZeroNode(NameOf("zero", g.heap), LeafTy))
\* a Save node and the variable it writes
GSave(g, in, train) ==
  LET g1 == GVar(g, Variable(NameOf("out", g.heap), g.heap[in].ty, train, ""))
  IN  GNode(g1, MkNode("Save", NameOf("save", g1.heap), <<in, Len(g1.heap)>>, VoidTy,
                       <<>>, FALSE))

\* the nodes whose result another node can use
Values(g) == {n \in 1..Len(g.heap) : g.heap[n].kind # "Save"}

\* the graphs made from g by one more operation node
OneMore(g) ==
  {GRelu(g, i) : i \in Values(g)}
  \cup {GReshape(g, i) : i \in Values(g)}
  \cup {GTranspose(g, i) : i \in Values(g)}
  \cup {GSlice(g, i) : i \in Values(g)}
  \cup {GSave(g, i, t) : i \in Values(g), t \in BOOLEAN}
  \cup {GAdd(g, p[1], p[2]) :
          p \in {q \in Values(g) \X Values(g) : g.heap[q[1]].ty = g.heap[q[2]].ty}}
  \cup {GConcat(g, <<p[1], p[2]>>) :
          p \in {q \in Values(g) \X Values(g) :
                   Concatenable(g.heap[q[1]].ty, g.heap[q[2]].ty, 0)}}
  \cup {GZero(g)}

\* MaxVars variables, trainable or not, and no operation node
BaseGraphs ==
  {[heap |-> [i \in 1..MaxVars |->
                Variable("v" \o ToString(i), LeafTy, f[i], "")],
    nodes |-> <<>>,
    vars |-> [i \in 1..MaxVars |-> i]] : f \in [1..MaxVars -> BOOLEAN]}

RECURSIVE Grown(_)
Grown(k) ==
  IF k = 0 THEN BaseGraphs
  ELSE LET S == Grown(k - 1) IN S \cup UNION {OneMore(g) : g \in S}

\* graphs beyond the generated ones: the scenarios Add(A, B) -> Save and
\* Concat(A, B) -> Save; a chain relu-add-save; a variable with three uses; a node
\* with two consumers; a chain through the shape operators; a concatenation of three
\* inputs
Deeper(b) ==
  {GSave(GAdd(b, 1, 2), MaxVars + 1, FALSE),
   GSave(GConcat(b, <<1, 2>>), MaxVars + 1, FALSE),
   GSave(GAdd(GRelu(b, 1), MaxVars + 1, 1), MaxVars + 2, FALSE),
   GSave(GConcat(GAdd(b, 1, 1), <<MaxVars + 1, 1>>), MaxVars + 2, FALSE),
   GSave(GConcat(GAdd(GRelu(b, 1), MaxVars + 1, MaxVars + 1),
                 <<MaxVars + 1, MaxVars + 2>>), MaxVars + 3, FALSE),
   GSave(GSlice(GReshape(GTranspose(b, 1), MaxVars + 1), MaxVars + 2), MaxVars + 3,
         FALSE),
   GSave(GConcat(b, <<1, 1, 1>>), MaxVars + 1, FALSE),
   GSave(GZero(b), 1, FALSE),
   GSave(GZero(b), MaxVars + 1, FALSE)}

\* the shuffles of r axes: the permutations of 0..r-1
Shuffles(r) ==
  {sh \in [1..r -> 0..(r - 1)] : \A i \in 1..r : \A j \in 1..r : sh[i] = sh[j] => i = j}

\* a type of r axes whose extents all differ
RankTy(r) == [i \in 1..r |-> i + 1]

\* one variable of the type ty and no operation node
OneVar(ty, train) ==
  [heap |-> <<Variable("x", ty, train, "")>>, nodes |-> <<>>, vars |-> <<1>>]

GTransposeBy(g, in, sh) ==
  GNode(g, MkNode("Transpose", NameOf("transpose", g.heap), <<in>>,
                  Shuffled(g.heap[in].ty, sh), sh, FALSE))

\* Transpose(x, shuffle) -> Save, for every shuffle of up to MaxRank axes
TransposeGraphs ==
  {GSave(GTransposeBy(OneVar(RankTy(Len(sh)), t), 1, sh), 2, FALSE) :
     sh \in UNION {Shuffles(r) : r \in 1..MaxRank}, t \in BOOLEAN}

GConcatDim(g, ins, dim) ==
  GNode(g, MkNode("Concat", NameOf("concat", g.heap), ins, ConcatDims(g.heap, ins, dim),
                  <<dim>>, FALSE))

\* the type <<2, 2>> with the extent e on the axis dim
ExtentTy(dim, e) == [i \in 1..2 |-> IF i = dim + 1 THEN e ELSE 2]

\* Concat(x, y, z) -> Save along either axis, the inputs' extents on it 1 or 2
ConcatGraphs ==
  {LET g1 == OneVar(ExtentTy(dim, es[1]), t)
       g2 == GVar(g1, Variable("y", ExtentTy(dim, es[2]), t, ""))
       g3 == GVar(g2, Variable("z", ExtentTy(dim, es[3]), t, ""))
   IN  GSave(GConcatDim(g3, <<1, 2, 3>>, dim), 4, FALSE) :
     dim \in 0..1, es \in [1..3 -> 1..2], t \in BOOLEAN}

FwdGraphs ==
  Grown(MaxOps) \cup UNION {Deeper(b) : b \in BaseGraphs} \cup TransposeGraphs
  \cup ConcatGraphs

(***************************************************************************)
(* The traversal: PostOrderVisitor, and Node::visit walking the inputs of  *)
(* a node before the node.                                                 *)
(***************************************************************************)
RECURSIVE Visit(_, _, _), VisitInputs(_, _, _, _)
\* N->visit(parent, &pov): st is [visited, post]
Visit(h, n, st) ==
  IF n \in st.visited THEN st
  ELSE LET st1 == VisitInputs(h, h[n].ins, 1, [st EXCEPT !.visited = @ \cup {n}])
       IN  [st1 EXCEPT !.post = Append(@, n)]
VisitInputs(h, ins, i, st) ==
  IF i > Len(ins) THEN st ELSE VisitInputs(h, ins, i + 1, Visit(h, ins[i], st))

RECURSIVE VisitRoots(_, _, _, _)
VisitRoots(h, roots, i, st) ==
  IF i > Len(roots) THEN st ELSE VisitRoots(h, roots, i + 1, Visit(h, roots[i], st))

\* the traversal, were it to start from the variables alone
getPostOrder_varsOnly(h, vs, ns) ==
  VisitRoots(h, vs, 1, [visited |-> {}, post |-> <<>>]).post

\* the two loops over G.getVars() and G.getNodes(), then pov.getPostOrder()
getPostOrder(h, vs, ns) ==
  LET afterVars == VisitRoots(h, vs, 1, [visited |-> {}, post |-> <<>>])
  IN  VisitRoots(h, ns, 1, afterVars).post

(***************************************************************************)
(* The differentiation rules.  A rule takes the world and the node N and   *)
(* gives [fatal, w, staged, get]: whether a lookup failed, the world after *)
(* the rule, the nodes it pushed on toAppend, and its getGradient call.    *)
(***************************************************************************)
\* new X(...): a node object that no graph holds yet
Alloc(w, node) == [w EXCEPT !.heap = Append(@, node)]

GetOp(N, r) ==
  [NoOp EXCEPT !.op = "get", !.key = N, !.ret = r.value, !.fatal = r.fatal,
               !.site = "sweep"]

Failed(w, N, r) == [fatal |-> TRUE, w |-> w, staged |-> <<>>, get |-> GetOp(N, r)]

Done(w, N, r, staged) ==
  [fatal |-> FALSE, w |-> w, staged |-> staged, get |-> GetOp(N, r)]

\* ArithmeticNode::getGrad (Add) and ReluNode::getGrad, reached through
\* CONVERT_TO_GRAD_NODE: addition hands the output gradient to both operands
getGrad(w, N) ==
  LET r == getGradient(w.map, N)
      n == w.heap[N]
  IN  IF r.fatal THEN Failed(w, N, r)
      ELSE IF n.kind = "Arithmetic"
      THEN LET w1 == Alloc(w, MkNode("ArithmeticGrad", n.name,
                                     <<n.ins[1], n.ins[2], r.value>>, n.ty, <<>>, FALSE))
               X == Len(w1.heap)
               w2 == addGradient(w1, n.ins[1], r.value)
               w3 == addGradient(w2, n.ins[2], r.value)
           IN  Done(w3, N, r, <<X>>)
      ELSE LET w1 == Alloc(w, MkNode("ReluGrad", n.name, <<n.ins[1], r.value>>,
                                     w.heap[n.ins[1]].ty, <<>>, FALSE))
               X == Len(w1.heap)
           IN  Done(addGradient(w1, n.ins[1], X), N, r, <<X>>)

\* the SaveNode rule, were the input and the variable given a zero node each
SaveRule_twoZeros(w, N) ==
  LET n == w.heap[N]
      w1 == Alloc(w, ZeroNode(n.name, w.heap[n.ins[1]].ty))
      X == Len(w1.heap)
      w2 == Alloc(addGradient(w1, n.ins[1], X), ZeroNode(n.name, w.heap[n.ins[1]].ty))
      Y == Len(w2.heap)
      w3 == addGradient(w2, n.ins[2], Y)
  IN  [fatal |-> FALSE, w |-> w3, staged |-> <<X, Y>>, get |-> NoOp]

\* the SaveNode rule, were it to register the gradient of the variable alone
SaveRule_varOnly(w, N) ==
  LET n == w.heap[N]
      w1 == Alloc(w, ZeroNode(n.name, w.heap[n.ins[1]].ty))
      X == Len(w1.heap)
  IN  [fatal |-> FALSE, w |-> addGradient(w1, n.ins[2], X), staged |-> <<X>>,
       get |-> NoOp]

\* the SaveNode rule
SaveRule(w, N) ==
  LET n == w.heap[N]
      w1 == Alloc(w, ZeroNode(n.name, w.heap[n.ins[1]].ty))
      X == Len(w1.heap)
      w2 == addGradient(w1, n.ins[1], X)
      w3 == addGradient(w2, n.ins[2], X)
  IN  [fatal |-> FALSE, w |-> w3, staged |-> <<X>>, get |-> NoOp]

\* the ReshapeNode rule, were the gradient given the type of the forward result
ReshapeRule_resultTy(w, N) ==
  LET n == w.heap[N]
      outputG == getGradient(w.map, N)
      inputW == n.ins[1]
  IN  IF outputG.fatal THEN Failed(w, N, outputG)
      ELSE LET w1 == Alloc(w, MkNode("Reshape", n.name, <<outputG.value>>, n.ty, n.ty,
                                     FALSE))
               X == Len(w1.heap)
           IN  Done(addGradient(w1, inputW, X), N, outputG, <<X>>)

\* the ReshapeNode rule
ReshapeRule(w, N) ==
  LET n == w.heap[N]
      outputG == getGradient(w.map, N)
      inputW == n.ins[1]
  IN  IF outputG.fatal THEN Failed(w, N, outputG)
      ELSE LET w1 == Alloc(w, MkNode("Reshape", n.name, <<outputG.value>>,
                                     w.heap[inputW].ty, w.heap[inputW].ty, FALSE))
               X == Len(w1.heap)
           IN  Done(addGradient(w1, inputW, X), N, outputG, <<X>>)

\* the loop "reverseShuffle[shuffle[i]] = i", from position i on; axes count from 0
RECURSIVE ReverseShuffleFrom(_, _, _)
ReverseShuffleFrom(shuffle, rev, i) ==
  IF i >= Len(shuffle) THEN rev
  ELSE ReverseShuffleFrom(shuffle, [rev EXCEPT ![shuffle[i + 1] + 1] = i], i + 1)

\* reverseShuffle, were the loop that fills it left out
ReverseShuffle_copy(shuffle) == shuffle

\* reverseShuffle starts as a copy of shuffle
ReverseShuffle(shuffle) == ReverseShuffleFrom(shuffle, shuffle, 0)

\* the TransposeNode rule
TransposeRule(w, N) ==
  LET n == w.heap[N]
      outputG == getGradient(w.map, N)
      inputW == n.ins[1]
  IN  IF outputG.fatal THEN Failed(w, N, outputG)
      ELSE LET w1 == Alloc(w, MkNode("Transpose", n.name, <<outputG.value>>,
                                     w.heap[inputW].ty, ReverseShuffle(n.aux), FALSE))
               X == Len(w1.heap)
           IN  Done(addGradient(w1, inputW, X), N, outputG, <<X>>)

\* the SliceNode rule, were the gradient inserted at the origin
SliceRule_atOrigin(w, N) ==
  LET n == w.heap[N]
      w1 == Alloc(w, ZeroNode("expand", w.heap[n.ins[1]].ty))
      zero == Len(w1.heap)
      outputG == getGradient(w.map, N)
  IN  IF outputG.fatal THEN Failed(w1, N, outputG)
      ELSE LET w2 == Alloc(w1, MkNode("InsertTensor", "insert.slice.grad",
                                      <<zero, outputG.value>>, w1.heap[zero].ty,
                                      [i \in 1..Len(n.aux) |-> 0], FALSE))
               insert == Len(w2.heap)
           IN  Done(addGradient(w2, n.ins[1], insert), N, outputG, <<zero, insert>>)

\* the SliceNode rule: the zero node is made before the lookup
SliceRule(w, N) ==
  LET n == w.heap[N]
      w1 == Alloc(w, ZeroNode("expand", w.heap[n.ins[1]].ty))
      zero == Len(w1.heap)
      outputG == getGradient(w.map, N)
  IN  IF outputG.fatal THEN Failed(w1, N, outputG)
      ELSE LET w2 == Alloc(w1, MkNode("InsertTensor", "insert.slice.grad",
                                      <<zero, outputG.value>>, w1.heap[zero].ty, n.aux,
                                      FALSE))
               insert == Len(w2.heap)
           IN  Done(addGradient(w2, n.ins[1], insert), N, outputG, <<zero, insert>>)

\* the loop of the ConcatNode rule over the inputs, from input i on
RECURSIVE ConcatLoop(_, _, _, _, _, _)
ConcatLoop(w, inputs, i, outputG, offsets, dim) ==
  IF i > Len(inputs) THEN w
  ELSE LET in == inputs[i]
           w1 == Alloc(w, MkNode("Slice", "extract", <<outputG>>, w.heap[in].ty, offsets,
                                 FALSE))
           X == Len(w1.heap)
           next == [offsets EXCEPT ![dim + 1] = @ + w.heap[in].ty[dim + 1]]
       IN  ConcatLoop(addGradient(w1, in, X), inputs, i + 1, outputG, next, dim)

\* the ConcatNode rule, were it to slice along the first axis whatever the node says
ConcatRule_firstAxis(w, N) ==
  LET n == w.heap[N]
      outputG == getGradient(w.map, N)
      offsets == [i \in 1..Len(n.ty) |-> 0]
  IN  IF outputG.fatal THEN Failed(w, N, outputG)
      ELSE Done(ConcatLoop(w, n.ins, 1, outputG.value, offsets, 0), N, outputG, <<>>)

\* the ConcatNode rule: no slice is pushed on toAppend
ConcatRule(w, N) ==
  LET n == w.heap[N]
      outputG == getGradient(w.map, N)
      offsets == [i \in 1..Len(n.ty) |-> 0]
      dim == n.aux[1]
  IN  IF outputG.fatal THEN Failed(w, N, outputG)
      ELSE Done(ConcatLoop(w, n.ins, 1, outputG.value, offsets, dim), N, outputG, <<>>)

(***************************************************************************)
(* generateGradientNodes.                                                  *)
(***************************************************************************)
Modes == {"Infer", "Train", "TrainDebug"}

Momenta == {-1, 0, 1}

Confs ==
  {[L1Decay |-> 1, L2Decay |-> 2, learningRate |-> 3, momentum |-> m, batchSize |-> 4] :
     m \in Momenta}

Init ==
  \E g \in FwdGraphs : \E md \in Modes : \E c \in Confs :
    /\ heap = g.heap
    /\ nodes = g.nodes
    /\ vars = g.vars
    /\ gradVars = <<>>
    /\ map = EmptyMap
    /\ toAppend = <<>>
    /\ newVars = <<>>
    /\ order = <<>>
    /\ it = 0
    /\ vi = 0
    /\ pc = "start"
    /\ mode = md
    /\ conf = c
    /\ contribs = EmptyMap
    /\ origNodes = g.nodes
    /\ origVars = g.vars
    /\ lastOp = NoOp

\* lines 56-64: the traversal
Traverse ==
  /\ pc = "start"
  /\ order' = getPostOrder(heap, vars, nodes)
  /\ it' = Len(order')
  /\ pc' = "sweep"
  /\ UNCHANGED <<heap, nodes, vars, gradVars, map, toAppend, newVars, vi, mode, conf,
                 contribs, origNodes, origVars, lastOp>>

SweepFrame == UNCHANGED <<vars, gradVars, newVars, order, vi, mode, conf, origNodes, origVars>>

AtNode(kinds) ==
  /\ pc = "sweep"
  /\ it >= 1
  /\ heap[order[it]].kind \in kinds

\* the effect of one rule in the loop body: a failed lookup ends the pass
Apply(r) ==
  /\ SetWorld(r.w)
  /\ lastOp' = r.get
  /\ IF r.fatal
     THEN pc' = "fatal" /\ UNCHANGED <<toAppend, it>>
     ELSE pc' = pc /\ toAppend' = toAppend \o r.staged /\ it' = it - 1
  /\ SweepFrame

\* isa<Variable>(N): continue
SkipVariable ==
  /\ AtNode({"Variable"})
  /\ it' = it - 1
  /\ UNCHANGED <<heap, nodes, map, contribs, toAppend, pc, lastOp>>
  /\ SweepFrame

GradDelegated == AtNode({"Arithmetic", "Relu"}) /\ Apply(getGrad(World, order[it]))
GradSave == AtNode({"Save"}) /\ Apply(SaveRule(World, order[it]))
GradReshape == AtNode({"Reshape"}) /\ Apply(ReshapeRule(World, order[it]))
GradTranspose == AtNode({"Transpose"}) /\ Apply(TransposeRule(World, order[it]))
GradSlice == AtNode({"Slice"}) /\ Apply(SliceRule(World, order[it]))
GradConcat == AtNode({"Concat"}) /\ Apply(ConcatRule(World, order[it]))

RuleKinds ==
  {"Variable", "Arithmetic", "Relu", "Save", "Reshape", "Transpose", "Slice", "Concat"}

\* a node of a kind that has no rule, were the loop to go on to the next node
NoRule_skip ==
  /\ pc = "sweep"
  /\ it >= 1
  /\ heap[order[it]].kind \notin RuleKinds
  /\ it' = it - 1
  /\ lastOp' = NoOp
  /\ UNCHANGED <<heap, nodes, map, contribs, toAppend, pc>>
  /\ SweepFrame

\* assert(false); glow_unreachable(): a node of a kind that has no rule
NoRule ==
  /\ pc = "sweep"
  /\ it >= 1
  /\ heap[order[it]].kind \notin RuleKinds
  /\ pc' = "fatal"
  /\ lastOp' = [NoOp EXCEPT !.op = "norule", !.key = order[it], !.fatal = TRUE,
                            !.site = "sweep"]
  /\ UNCHANGED <<heap, nodes, map, contribs, toAppend, it>>
  /\ SweepFrame

\* it == e: the sweep is over
SweepEnd ==
  /\ pc = "sweep"
  /\ it = 0
  /\ pc' = "update"
  /\ vi' = 1
  /\ UNCHANGED <<heap, nodes, vars, gradVars, map, toAppend, newVars, order, it, mode,
                 conf, contribs, origNodes, origVars, lastOp>>

\* G.createSave(name, input): a new variable and a Save node writing it, both added
\* to the graph; u is [heap, nodes, vars]
createSave(u, name, input) ==
  LET dest == Variable(name, u.heap[input].ty, FALSE, "")
      h1 == Append(u.heap, dest)
      save == MkNode("Save", name, <<input, Len(h1)>>, VoidTy, <<>>, FALSE)
  IN  [heap |-> Append(h1, save),
       nodes |-> Append(u.nodes, Len(h1) + 1),
       vars |-> Append(u.vars, Len(h1))]

\* the accumulator's type, were it the variable's for every momentum but zero
gsumType_nonzero(V) == IF conf.momentum # 0 THEN heap[V].ty ELSE VoidTy

\* the type of the momentum accumulator, were every momentum to get a full one
gsumType_always(V) == heap[V].ty

\* conf.momentum > 0 ? V->getType() : G.getVoidTy()
gsumType(V) == IF conf.momentum > 0 THEN heap[V].ty ELSE VoidTy

\* the update node, were the learning rate and the momentum passed in each other's
\* place
SGDNode_swapped(h, grad, V, gsum) ==
  MkNode("SGD", h[V].name, <<grad, V, gsum>>, VoidTy,
         <<conf.L1Decay, conf.L2Decay, conf.momentum, conf.learningRate, conf.batchSize>>,
         FALSE)

\* new SGDNode(V->getName(), grad, V, gsum, L1Decay, L2Decay, learningRate, momentum,
\* batchSize)
SGDNode(h, grad, V, gsum) ==
  MkNode("SGD", h[V].name, <<grad, V, gsum>>, VoidTy,
         <<conf.L1Decay, conf.L2Decay, conf.learningRate, conf.momentum, conf.batchSize>>,
         FALSE)

\* the test for a snapshot, were it not to ask for a registered gradient
Snapshots_always(V) == mode = "TrainDebug"

\* the snapshot, were it taken for trainable variables only
Snapshots_trainable(V) == mode = "TrainDebug" /\ hasGradient(map, V) /\ heap[V].train

\* whether the loop body takes the snapshot of V's gradient
Snapshots(V) == mode = "TrainDebug" /\ hasGradient(map, V)

\* one turn of the loop over G.getVars() (lines 168-192), at the variable the loop
\* has reached in the graph's list as it is now
UpdateVar ==
  /\ pc = "update"
  /\ vi <= Len(vars)
  /\ LET V == vars[vi]
         u0 == [heap |-> heap, nodes |-> nodes, vars |-> vars]
         u1 == IF Snapshots(V)
               THEN createSave(u0, "_grad_" \o heap[V].name, getGradient(map, V).value)
               ELSE u0
         GradV == Len(u1.heap) - 1
         gsum == Variable("gsum", gsumType(V), FALSE, "Broadcast")
         h2 == Append(u1.heap, gsum)
         r == getGradient(map, V)
     IN  /\ nodes' = u1.nodes
         /\ vars' = u1.vars
         /\ gradVars' = IF Snapshots(V) THEN Append(gradVars, <<V, GradV>>) ELSE gradVars
         /\ IF ~heap[V].train
            THEN /\ heap' = u1.heap
                 /\ vi' = vi + 1
                 /\ UNCHANGED <<newVars, toAppend, pc, lastOp>>
            ELSE /\ newVars' = Append(newVars, Len(h2))
                 /\ lastOp' = [NoOp EXCEPT !.op = "get", !.key = V, !.ret = r.value,
                                           !.fatal = r.fatal, !.site = "update"]
                 /\ IF r.fatal
                    THEN /\ heap' = h2
                         /\ pc' = "fatal"
                         /\ UNCHANGED <<toAppend, vi>>
                    ELSE /\ heap' = Append(h2, SGDNode(heap, r.value, V, Len(h2)))
                         /\ toAppend' = Append(toAppend, Len(h2) + 1)
                         /\ vi' = vi + 1
                         /\ pc' = pc
  /\ UNCHANGED <<map, order, it, mode, conf, contribs, origNodes, origVars>>

\* the loop over G.getVars() is over
UpdateEnd ==
  /\ pc = "update"
  /\ vi > Len(vars)
  /\ pc' = "commitNodes"
  /\ UNCHANGED <<heap, nodes, vars, gradVars, map, toAppend, newVars, order, it, vi, mode,
                 conf, contribs, origNodes, origVars, lastOp>>

\* the commit of the staged nodes, were they put in front of the graph's nodes
CommitNodes_front ==
  /\ pc = "commitNodes"
  /\ nodes' = toAppend \o nodes
  /\ pc' = "commitVars"
  /\ UNCHANGED <<heap, vars, gradVars, map, toAppend, newVars, order, it, vi, mode, conf,
                 contribs, origNodes, origVars, lastOp>>

\* for (auto &I : toAppend) G.addNode(I)
CommitNodes ==
  /\ pc = "commitNodes"
  /\ nodes' = nodes \o toAppend
  /\ pc' = "commitVars"
  /\ UNCHANGED <<heap, vars, gradVars, map, toAppend, newVars, order, it, vi, mode, conf,
                 contribs, origNodes, origVars, lastOp>>

\* for (auto &I : newVars) G.addVar(I)
CommitVars ==
  /\ pc = "commitVars"
  /\ vars' = vars \o newVars
  /\ pc' = "done"
  /\ UNCHANGED <<heap, nodes, gradVars, map, toAppend, newVars, order, it, vi, mode, conf,
                 contribs, origNodes, origVars, lastOp>>

Next ==
  \/ Traverse
  \/ SkipVariable
  \/ GradDelegated
  \/ GradSave
  \/ GradReshape
  \/ GradTranspose
  \/ GradSlice
  \/ GradConcat
  \/ NoRule
  \/ SweepEnd
  \/ UpdateVar
  \/ UpdateEnd
  \/ CommitNodes
  \/ CommitVars

Spec == Init /\ [][Next]_vars_all

(***************************************************************************)
(* Claims about the pass, under Spec.                                      *)
(***************************************************************************)
NodeSet == SeqToSet(nodes)
VarSet == SeqToSet(vars)
OrigSet == SeqToSet(origNodes) \cup SeqToSet(origVars)

\* the nodes and variables the pass has made
Created == (1..Len(heap)) \ OrigSet

NoDuplicate(s) == \A i \in DOMAIN s : \A j \in DOMAIN s : s[i] = s[j] => i = j

RECURSIVE Closure(_, _)
Closure(h, S) ==
  LET T == S \cup UNION {SeqToSet(h[n].ins) : n \in S}
  IN  IF T = S THEN S ELSE Closure(h, T)

\* what the graph's outputs (its Save nodes) depend on, the outputs included
ReachableFromOutputs ==
  Closure(heap, {n \in SeqToSet(origNodes) : heap[n].kind = "Save"})

Traversed == pc \in {"sweep", "update", "commitNodes", "commitVars", "done", "fatal"}

\* C4: the traversal gives one sequence that holds every variable and every node
\* the outputs depend on, each once, every input of a node before the node.
C4_PostOrder ==
  Traversed =>
    /\ NoDuplicate(order)
    /\ SeqToSet(origVars) \subseteq SeqToSet(order)
    /\ ReachableFromOutputs \subseteq SeqToSet(order)
    /\ \A i \in DOMAIN order : \A n \in SeqToSet(heap[order[i]].ins) :
         \E k \in 1..(i - 1) : order[k] = n

C4_Witness ==
  /\ pc = "sweep"
  /\ it = Len(order)
  /\ Len(order) >= 6
  /\ \E n \in ReachableFromOutputs : \E m \in SeqToSet(heap[n].ins) :
       heap[m].kind \notin {"Variable", "Save"}

\* the uses of N's result by the forward graph: <<consumer, operand number>>
Uses(N) ==
  {u \in SeqToSet(origNodes) \X (1..Len(heap)) :
     u[2] <= Len(heap[u[1]].ins) /\ heap[u[1]].ins[u[2]] = N}

Pos(n) == CHOOSE i \in DOMAIN order : order[i] = n

LookupKinds == {"Arithmetic", "Relu", "Reshape", "Transpose", "Slice", "Concat"}

\* the node the sweep is about to handle is a node whose rule looks its gradient up
AboutToRun(N) ==
  /\ pc = "sweep"
  /\ it >= 1
  /\ order[it] = N
  /\ heap[N].kind \in LookupKinds

Contributions(N) == IF N \in DOMAIN contribs THEN Len(contribs[N]) ELSE 0

\* C5 (as amended): when the rule of a node that is no output runs, every consumer
\* of its result has run its rule and registered one contribution per use; if the
\* node has a consumer, the lookup finds the sum of exactly these contributions; a
\* node with no consumer finds no entry, and that lookup is the only one to fail.
C5_ConsumersFirst ==
  /\ \A N \in SeqToSet(origNodes) :
       AboutToRun(N) =>
         /\ \A u \in Uses(N) : Pos(u[1]) > it
         /\ Contributions(N) = Cardinality(Uses(N))
         /\ (Uses(N) # {}) <=> hasGradient(map, N)
         /\ Uses(N) # {} =>
              /\ IsChain(heap, map[N], Len(contribs[N]))
              /\ BagOf(ChainLeaves(heap, map[N], Len(contribs[N]))) = BagOf(contribs[N])
  /\ (pc = "fatal" /\ lastOp.site = "sweep" /\ lastOp.op = "get") =>
       Uses(lastOp.key) = {}

C5_Witness ==
  \E N \in SeqToSet(origNodes) :
    /\ AboutToRun(N)
    /\ Cardinality(Uses(N)) >= 2
    /\ \E u \in Uses(N) : \E v \in Uses(N) : u[1] # v[1]

\* C5 as stated: no lookup of the sweep hits a missing entry.
C5_NeverMissing ==
  \A N \in SeqToSet(origNodes) : AboutToRun(N) => hasGradient(map, N)

\* C6 as stated: until the sweep and the update synthesis are over the graph's
\* nodes and variables are unchanged, everything the pass made is held by the
\* staging lists alone, and the commit adds the nodes first, the variables second.
C6_StageThenCommit ==
  /\ pc \in {"start", "sweep", "update", "commitNodes"} =>
       /\ nodes = origNodes
       /\ vars = origVars
       /\ Created \subseteq SeqToSet(toAppend) \cup SeqToSet(newVars)
  /\ pc = "commitVars" => nodes = origNodes \o toAppend /\ vars = origVars
  /\ pc = "done" => nodes = origNodes \o toAppend /\ vars = origVars \o newVars

\* C7 as stated: after the pass every node and variable the pass made is in the
\* graph, so is every registered gradient and every operand of a node of the graph.
C7_CommitComplete ==
  pc = "done" =>
    /\ Created \subseteq NodeSet \cup VarSet
    /\ \A v \in DOMAIN map : map[v] \in NodeSet
    /\ \A n \in NodeSet : SeqToSet(heap[n].ins) \subseteq NodeSet \cup VarSet

\* the update nodes of the graph bound to the parameter P
UpdatesOf(P) == {n \in NodeSet : heap[n].kind = "SGD" /\ heap[n].ins[2] = P}

Updates == {n \in NodeSet : heap[n].kind = "SGD"}

ConfOf(n) ==
  [L1Decay |-> heap[n].aux[1], L2Decay |-> heap[n].aux[2], learningRate |-> heap[n].aux[3],
   momentum |-> heap[n].aux[4], batchSize |-> heap[n].aux[5]]

\* the variables of the graph that have a registered gradient
WithGradient == {P \in VarSet : hasGradient(map, P)}

\* C8: after the pass a parameter with a registered gradient has one update node if
\* it is trainable and none if it is not; an update node is bound to the parameter,
\* its registered gradient, an accumulator of its own and the configuration.
C8_UpdateCoverage ==
  pc = "done" =>
    /\ \A P \in WithGradient :
         Cardinality(UpdatesOf(P)) = IF heap[P].train THEN 1 ELSE 0
    /\ \A n \in Updates :
         /\ heap[n].ins[1] = map[heap[n].ins[2]]
         /\ heap[n].ins[3] \in VarSet
         /\ heap[heap[n].ins[3]].kind = "Variable"
         /\ heap[n].ins[3] \in Created
         /\ ConfOf(n) = conf
         /\ \A m \in Updates : heap[m].ins[3] = heap[n].ins[3] => m = n

C8_Witness ==
  /\ pc = "done"
  /\ \E P \in WithGradient : \E Q \in WithGradient :
       /\ heap[P].train /\ ~heap[Q].train
       /\ UpdatesOf(P) # {} /\ UpdatesOf(Q) = {}

\* the Save nodes the pass added that expose the gradient g
SnapshotsOf(g) ==
  {n \in NodeSet \cap Created : heap[n].kind = "Save" /\ heap[n].ins[1] = g}

\* C9: after a pass in TrainDebug mode every parameter W with a registered gradient,
\* trainable or not, has a new Save node exposing that gradient, and the graph maps
\* W to the variable that node writes; in the other modes there is no such node and
\* no such mapping.
C9_DebugSnapshot ==
  pc = "done" =>
    IF mode = "TrainDebug"
    THEN \A W \in WithGradient :
           \E n \in SnapshotsOf(map[W]) :
             /\ heap[n].ins[2] \in VarSet \cap Created
             /\ \E i \in DOMAIN gradVars : gradVars[i] = <<W, heap[n].ins[2]>>
    ELSE /\ gradVars = <<>>
         /\ \A n \in Created : heap[n].kind # "Save"

C9_Witness ==
  /\ pc = "done"
  /\ mode = "TrainDebug"
  /\ \E W \in WithGradient : \E U \in WithGradient : heap[W].train /\ ~heap[U].train

\* the forward graph Add(A, B) -> Save, A and B trainable, mode train, momentum 0
Scenario ==
  /\ Len(origNodes) = 2
  /\ heap[origNodes[1]].kind = "Arithmetic"
  /\ heap[origNodes[1]].mode = "Add"
  /\ heap[origNodes[1]].ins = <<1, 2>>
  /\ heap[origNodes[2]].kind = "Save"
  /\ heap[origNodes[2]].ins[1] = origNodes[1]
  /\ heap[1].train /\ heap[2].train
  /\ mode = "Train"
  /\ conf.momentum = 0

\* the seed gradient: the node the Save rule made for the marker
IsSeed(g) ==
  /\ heap[g].kind = "Zero"
  /\ g \in SeqToSet(toAppend)
  /\ g = map[origNodes[1]]

SameSeed ==
  /\ \A P \in {1, 2} : Cardinality(UpdatesOf(P)) = 1
  /\ \E g \in 1..Len(heap) :
       /\ IsSeed(g)
       /\ \A P \in {1, 2} : \A n \in UpdatesOf(P) : heap[n].ins[1] = g

\* C10 (as amended): in the scenario A and B each get one update node, both reading
\* the same seed gradient, and each update node gets an accumulator variable that
\* is a placeholder of the void type, not a buffer of the parameter's type.
C10_EndToEnd ==
  (Scenario /\ pc = "done") =>
    /\ SameSeed
    /\ \A P \in {1, 2} : \A n \in UpdatesOf(P) :
         /\ heap[n].ins[3] \in VarSet \cap Created
         /\ heap[heap[n].ins[3]].ty = VoidTy
         /\ heap[heap[n].ins[3]].ty # heap[P].ty

C10_Witness == Scenario /\ pc = "done"

\* C10 as stated: ... and the pass makes no accumulator variable for A or for B.
C10_NoAccumulator ==
  (Scenario /\ pc = "done") =>
    /\ SameSeed
    /\ \A P \in {1, 2} : \A n \in UpdatesOf(P) : heap[n].ins[3] \notin Created

\* the sweep has gone past the node N: the rule of N has run
HasRun(N) == Traversed /\ N \in SeqToSet(order) /\ Pos(N) > it

RanNodes(kind) == {N \in SeqToSet(origNodes) : heap[N].kind = kind /\ HasRun(N)}

\* the nodes of a kind that the rule of the forward node N made (a rule names what
\* it makes after N)
MadeFor(N, kind) ==
  {X \in Created : heap[X].kind = kind /\ heap[X].name = heap[N].name}

IsContribution(X, v) == v \in DOMAIN contribs /\ X \in SeqToSet(contribs[v])

IsPermutation(sh) ==
  /\ \A i \in DOMAIN sh : sh[i] \in 0..(Len(sh) - 1)
  /\ \A i \in DOMAIN sh : \A j \in DOMAIN sh : sh[i] = sh[j] => i = j

\* C11: for a forward transpose with a permutation as shuffle, the rule makes one
\* transpose of the output gradient whose shuffle is a permutation with
\* reverseShuffle[shuffle[i]] = i for every axis i, and whose type is the type of
\* the forward input.
C11_TransposeInverse ==
  \A N \in RanNodes("Transpose") :
    /\ Cardinality(MadeFor(N, "Transpose")) = 1
    /\ \A X \in MadeFor(N, "Transpose") :
         LET shuffle == heap[N].aux
             reverseShuffle == heap[X].aux
         IN  /\ IsPermutation(shuffle)
             /\ Len(reverseShuffle) = Len(shuffle)
             /\ IsPermutation(reverseShuffle)
             /\ \A i \in 0..(Len(shuffle) - 1) : reverseShuffle[shuffle[i + 1] + 1] = i
             /\ heap[X].ins = <<map[N]>>
             /\ heap[X].ty = heap[heap[N].ins[1]].ty
             /\ X \in SeqToSet(toAppend)
             /\ IsContribution(X, heap[N].ins[1])

\* a shuffle that is not its own inverse has been reversed
C11_Witness ==
  \E N \in RanNodes("Transpose") : \E X \in MadeFor(N, "Transpose") :
    /\ Len(heap[N].aux) >= 3
    /\ heap[X].aux # heap[N].aux

\* the k-th smallest member of a set of nodes: the k-th of them to be made
Nth(S, k) == CHOOSE x \in S : Cardinality({y \in S : y < x}) = k - 1

\* the slices the rule of the forward concat N cut from its output gradient
ExtractsOf(N) ==
  {X \in Created : /\ heap[X].kind = "Slice"
                   /\ heap[X].name = "extract"
                   /\ heap[X].ins = <<map[N]>>}

\* the extents of the first k inputs of N on the axis d, added up
RECURSIVE ExtentsUpTo(_, _, _)
ExtentsUpTo(N, k, d) ==
  IF k = 0 THEN 0 ELSE ExtentsUpTo(N, k - 1, d) + heap[heap[N].ins[k]].ty[d + 1]

\* C12: for a forward concat along the axis d, the rule cuts one slice of the output
\* gradient per input, in input order; slice k has the type of input k, offset 0 on
\* every other axis and the sum of the extents of the inputs before it on d; the
\* extents add up to the output's extent on d; slice k is a contribution for input k.
C12_ConcatPartition ==
  \A N \in RanNodes("Concat") :
    LET inputs == heap[N].ins
        d == heap[N].aux[1]
        S == ExtractsOf(N)
    IN  /\ Cardinality(S) = Len(inputs)
        /\ ExtentsUpTo(N, Len(inputs), d) = heap[N].ty[d + 1]
        /\ \A k \in 1..Len(inputs) :
             LET X == Nth(S, k)
             IN  /\ heap[X].ty = heap[inputs[k]].ty
                 /\ Len(heap[X].aux) = Len(heap[N].ty)
                 /\ \A a \in 1..Len(heap[N].ty) :
                      heap[X].aux[a] = IF a = d + 1 THEN ExtentsUpTo(N, k - 1, d) ELSE 0
                 /\ IsContribution(X, inputs[k])

\* a concat of three inputs of unlike extents along the second axis has been cut
C12_Witness ==
  \E N \in RanNodes("Concat") :
    /\ heap[N].aux[1] = 1
    /\ Len(heap[N].ins) = 3
    /\ heap[heap[N].ins[1]].ty # heap[heap[N].ins[2]].ty
    /\ Cardinality(ExtractsOf(N)) = 3
    /\ heap[Nth(ExtractsOf(N), 3)].aux[2] > heap[Nth(ExtractsOf(N), 2)].aux[2]

\* the positions of a tensor of the type ty, counted from 0 on every axis
Positions(ty) == {p \in [1..Len(ty) -> 0..9] : \A a \in 1..Len(ty) : p[a] < ty[a]}

\* the position p lies in the region of the extents dims that starts at start
Inside(p, start, dims) ==
  \A a \in 1..Len(p) : start[a] <= p[a] /\ p[a] < start[a] + dims[a]

ZeroElement == <<0, <<>>>>

\* the element of the result of X at the position p, said as the element of a node
\* it is taken from or as zero: a Zero node holds zeros, an InsertTensor node holds
\* its second input from the start offset on and its first input elsewhere
RECURSIVE ElementAt(_, _)
ElementAt(X, p) ==
  CASE heap[X].kind = "Zero" -> ZeroElement
    [] heap[X].kind = "InsertTensor" ->
         LET small == heap[X].ins[2]
             start == heap[X].aux
         IN  IF Inside(p, start, heap[small].ty)
             THEN <<small, [a \in 1..Len(p) |-> p[a] - start[a]]>>
             ELSE ElementAt(heap[X].ins[1], p)
    [] OTHER -> <<X, p>>

\* the insert nodes the rule of the forward slice N made
InsertsOf(N) ==
  {X \in Created : /\ heap[X].kind = "InsertTensor"
                   /\ heap[X].name = "insert.slice.grad"
                   /\ heap[X].ins[2] = map[N]}

\* C13: for a forward slice, the rule registers for the input one gradient of the
\* input's full type, made by inserting the output gradient at the forward start
\* offset into a zero tensor of that type: it is zero at every position outside the
\* sliced region and the output gradient's element inside it.
C13_SliceZeroFill ==
  \A N \in RanNodes("Slice") :
    LET input == heap[N].ins[1]
        start == heap[N].aux
    IN  /\ Cardinality(InsertsOf(N)) = 1
        /\ \A X \in InsertsOf(N) :
             LET zero == heap[X].ins[1]
             IN  /\ zero \in Created
                 /\ heap[zero].kind = "Zero"
                 /\ heap[zero].ty = heap[input].ty
                 /\ heap[X].ty = heap[input].ty
                 /\ heap[X].aux = start
                 /\ IsContribution(X, input)
                 /\ {zero, X} \subseteq SeqToSet(toAppend)
                 /\ \A p \in Positions(heap[input].ty) :
                      ElementAt(X, p) =
                        IF Inside(p, start, heap[N].ty)
                        THEN <<map[N], [a \in 1..Len(p) |-> p[a] - start[a]]>>
                        ELSE ZeroElement

\* a slice that starts off the origin has had its gradient expanded, with a position
\* of the input outside the sliced region
C13_Witness ==
  \E N \in RanNodes("Slice") :
    /\ InsertsOf(N) # {}
    /\ \E a \in 1..Len(heap[N].aux) : heap[N].aux[a] > 0
    /\ \E p \in Positions(heap[heap[N].ins[1]].ty) : ~Inside(p, heap[N].aux, heap[N].ty)

\* C14: for a forward reshape, the rule makes one reshape of the output's registered
\* gradient whose result type and target dimensions are the type and dimensions of
\* the forward input, and registers it as a contribution for that input.
C14_ReshapeIdentity ==
  \A N \in RanNodes("Reshape") :
    LET input == heap[N].ins[1]
    IN  /\ Cardinality(MadeFor(N, "Reshape")) = 1
        /\ \A X \in MadeFor(N, "Reshape") :
             /\ heap[X].ins = <<map[N]>>
             /\ heap[X].ty = heap[input].ty
             /\ heap[X].aux = heap[input].ty
             /\ X \in SeqToSet(toAppend)
             /\ IsContribution(X, input)

\* a reshape that changes the type has had its gradient reshaped back
C14_Witness ==
  \E N \in RanNodes("Reshape") :
    /\ MadeFor(N, "Reshape") # {}
    /\ heap[N].ty # heap[heap[N].ins[1]].ty

\* the traversed nodes of a kind that has no rule
Unsupported == {N \in SeqToSet(order) : heap[N].kind \notin RuleKinds}

\* C15: the sweep never goes past a node whose kind has no rule: the pass ends there
\* with a fatal error, handles no further node, makes no update node and commits
\* none of the staged nodes and parameters.
C15_UnsupportedKind ==
  Traversed =>
    /\ \A N \in Unsupported : it >= Pos(N) /\ pc \in {"sweep", "fatal"}
    /\ (pc = "fatal" /\ lastOp.op = "norule") =>
         /\ lastOp.key \in Unsupported
         /\ it = Pos(lastOp.key)
         /\ {n \in 1..Len(heap) : heap[n].kind = "SGD"} = {}
         /\ newVars = <<>>
         /\ SeqToSet(toAppend) \cap NodeSet = {}
         /\ vars = origVars
         /\ ~ENABLED Next

\* the pass has ended at a node that has no rule, with nodes staged by then
C15_Witness ==
  /\ pc = "fatal"
  /\ lastOp.op = "norule"
  /\ toAppend # <<>>

IsPrefix(a, b) == Len(a) <= Len(b) /\ \A i \in DOMAIN a : b[i] = a[i]

\* after the pass the graph's collections are the original ones followed by entries
\* the pass made
OriginalFirst ==
  pc = "done" =>
    /\ IsPrefix(origNodes, nodes)
    /\ IsPrefix(origVars, vars)
    /\ \A i \in (Len(origNodes) + 1)..Len(nodes) : nodes[i] \in Created
    /\ \A i \in (Len(origVars) + 1)..Len(vars) : vars[i] \in Created

\* a step of the pass changes no node or variable that exists and only adds to the
\* end of the graph's collections
OnlyAppends ==
  /\ IsPrefix(heap, heap')
  /\ IsPrefix(nodes, nodes')
  /\ IsPrefix(vars, vars')

\* C16: every node and parameter of the original graph is in the graph after the
\* pass, in the same relative order, with the same kind, inputs and attributes, and
\* the graph's collections are the original collections followed only by new entries.
C16_ForwardPreserved == []OriginalFirst /\ [][OnlyAppends]_vars_all

\* a pass that added nodes and parameters to a graph has completed
C16_Witness ==
  /\ pc = "done"
  /\ Len(nodes) > Len(origNodes) + 1
  /\ Len(vars) > Len(origVars)
  /\ Len(origNodes) >= 2

\* C17: for an output marker (Save) the rule makes exactly one gradient source node
\* (a Zero node) of the type of the marker's input and registers that node as a
\* contribution for the input and for the bound variable; it looks no gradient up,
\* so every other rule that has run came after the rule of some output marker.
C17_OutputSeeding ==
  /\ \A N \in RanNodes("Save") :
       /\ Cardinality(MadeFor(N, "Zero")) = 1
       /\ \A X \in MadeFor(N, "Zero") :
            /\ heap[X].ty = heap[heap[N].ins[1]].ty
            /\ heap[X].ins = <<>>
            /\ X \in SeqToSet(toAppend)
            /\ IsContribution(X, heap[N].ins[1])
            /\ IsContribution(X, heap[N].ins[2])
  /\ (lastOp.op = "get" /\ lastOp.site = "sweep") => heap[lastOp.key].kind \in LookupKinds
  /\ \A N \in SeqToSet(origNodes) :
       (heap[N].kind \in LookupKinds /\ HasRun(N)) =>
         \E S \in RanNodes("Save") : Pos(S) > Pos(N)

\* an output marker has seeded the sweep and a rule that looks a gradient up has run
\* after it
C17_Witness ==
  \E S \in RanNodes("Save") : \E N \in SeqToSet(origNodes) :
    /\ heap[N].kind \in LookupKinds
    /\ HasRun(N)
    /\ heap[S].ins[1] = N
    /\ MadeFor(S, "Zero") # {}

\* the update nodes the pass has made, committed or not
AllUpdates == {n \in Created : heap[n].kind = "SGD"}

\* the accumulators the pass has made
Accumulators == {v \in Created : heap[v].kind = "Variable" /\ heap[v].name = "gsum"}

OwnAccumulators ==
  /\ \A U \in AllUpdates : heap[U].ins[3] \in Accumulators
  /\ \A U \in AllUpdates : \A W \in AllUpdates : heap[U].ins[3] = heap[W].ins[3] => U = W
  /\ pc \in {"commitNodes", "commitVars", "done"} =>
       Cardinality(Accumulators) = Cardinality(AllUpdates)

\* C18 (as amended): the accumulator of an update node is the zero-sized placeholder
\* exactly when the momentum is not above zero, negative values included, and has the
\* parameter's own type when the momentum is above zero; each update node has an
\* accumulator of its own, and a pass that got through its update loop has made as
\* many accumulators as update nodes.
C18_AccumulatorShape ==
  /\ \A U \in AllUpdates :
       LET P == heap[U].ins[2]
           gsum == heap[U].ins[3]
       IN  /\ (heap[gsum].ty = VoidTy) <=> (conf.momentum <= 0)
           /\ conf.momentum > 0 => heap[gsum].ty = heap[P].ty
  /\ OwnAccumulators

\* an update node of a pass with a negative momentum holds a placeholder
C18_Witness ==
  /\ pc = "done"
  /\ conf.momentum < 0
  /\ Cardinality(AllUpdates) >= 2
  /\ \E U \in AllUpdates : heap[heap[U].ins[3]].ty = VoidTy

\* C18 as stated: the accumulator is the placeholder exactly when the momentum is
\* zero and has the parameter's type for every other momentum, negative included.
C18_PlaceholderOnlyAtZero ==
  /\ \A U \in AllUpdates :
       LET P == heap[U].ins[2]
           gsum == heap[U].ins[3]
       IN  /\ (heap[gsum].ty = VoidTy) <=> (conf.momentum = 0)
           /\ conf.momentum # 0 => heap[gsum].ty = heap[P].ty
  /\ OwnAccumulators

\* the trainable variables of the graph that no gradient is registered for once the
\* sweep is over
TrainableWithoutGradient ==
  {V \in VarSet : /\ pc \in {"update", "commitNodes", "commitVars", "done", "fatal"}
                  /\ (pc = "fatal" => lastOp.site = "update")
                  /\ heap[V].train
                  /\ ~hasGradient(map, V)}

\* C19: a trainable parameter with no registered gradient gets no update node and
\* causes no fatal error: the update loop passes it over and the pass goes on.
C19_NoGradientNoError ==
  /\ \A V \in TrainableWithoutGradient : {U \in AllUpdates : heap[U].ins[2] = V} = {}
  /\ ~(pc = "fatal" /\ lastOp.site = "update" /\ lastOp.key \in TrainableWithoutGradient)

\* the snapshots and update nodes are for variables the graph had at the start, one
\* snapshot per variable at most, and the loop has not gone past the variables of
\* the start and their snapshots
OnlyOriginals ==
  /\ \A i \in DOMAIN gradVars :
       /\ gradVars[i][1] \in SeqToSet(origVars)
       /\ hasGradient(map, gradVars[i][1])
       /\ gradVars[i][2] \in Created
       /\ \A j \in DOMAIN gradVars : gradVars[i][1] = gradVars[j][1] => i = j
  /\ \A U \in AllUpdates : heap[U].ins[2] \in SeqToSet(origVars)
  /\ pc \in {"update", "commitNodes", "commitVars"} =>
       /\ Len(vars) = Len(origVars) + Len(gradVars)
       /\ vi <= Len(vars) + 1
  /\ \A n \in Created :
       (heap[n].kind = "Save") => \E i \in DOMAIN gradVars :
                                     /\ heap[n].ins[2] = gradVars[i][2]
                                     /\ heap[n].ins[1] = map[gradVars[i][1]]

\* a step of the loop over the variables goes on to the next position or ends the
\* loop, and the loop is never stuck
LoopAdvances ==
  pc = "update" => /\ vi' = vi + 1 \/ pc' # "update"
                   /\ ENABLED Next

\* C20: in the debug mode the loop over the graph's variables, which the snapshots
\* add variables to, comes to an end, within twice as many rounds as the graph had
\* variables at the start, and it makes snapshots and update nodes only for variables
\* the graph had when the pass started, never for a snapshot variable or an
\* accumulator the pass made.
C20_LoopTerminates ==
  /\ []OnlyOriginals
  /\ [](pc = "update" => vi <= 2 * Len(origVars) + 1)
  /\ [][LoopAdvances]_vars_all

\* the loop of a debug pass has ended after it went over variables its own snapshots
\* added
C20_Witness ==
  /\ mode = "TrainDebug"
  /\ pc = "commitNodes"
  /\ Len(gradVars) >= 2
  /\ Len(vars) > Len(origVars)
  /\ vi = Len(vars) + 1
  /\ AllUpdates # {}

====
